---------------------------- MODULE Spec2Model ----------------------------
(***************************************************************************)
(* Pegasus execution core.                                                 *)
(*                                                                         *)
(*   master/masterproj.go : ProjectCtx admission gate, the projRunner      *)
(*                          driver goroutine, queryProjStatusHandler.      *)
(*   worker/workertask.go : TaskCtx admission gate, handleTaskReq, the     *)
(*                          assignTasklets producer, taskletExecutor pool. *)
(*                                                                         *)
(* Master and worker are separate processes: MasterSpec and WorkerSpec     *)
(* each run one of them over the same variable list.  Every mutex          *)
(* protected method, channel operation and external call is one atomic     *)
(* step of the goroutine that performs it; goroutines interleave freely.   *)
(***************************************************************************)
EXTENDS Naturals, Sequences, FiniteSets

(***************************************************************************)
(* Bounds of the model.                                                    *)
(***************************************************************************)
\* admissions (= driver goroutines) the master performs in one behaviour
MaxRuns == 2
\* largest value of the master's clock (time.Now())
MaxTime == 2

(***************************************************************************)
(* Values.                                                                 *)
(***************************************************************************)
\* time.Time{} : the zero timestamp; the clock starts after it
ZeroTs == 0

\* Projects of the registry (taskreg.GetProj) and their job lists
Projects == {"A", "B"}

GetName(p) == p

GetJobs(p) == IF p = "A" THEN <<"map", "reduce">> ELSE <<"reduce">>

\* the opaque config body of a run request
Configs == {"c1", "c2"}

\* nil project / empty string
NoProj == ""

\* error values; ErrMsg is err.Error(), the empty message is the nil error
NoErr == [text |-> "", kind |-> ""]

InitErr == [text |-> "init failed", kind |-> ""]

FinishErr == [text |-> "finish failed", kind |-> ""]

\* the error runJob returns
RunJobErr == [text |-> "job failed", kind |-> ""]

\* fmt.Errorf("Fail on job %q, %v", job.GetKind(), err)
JobErr(kind, e) == [text |-> "Fail on job", kind |-> kind]

\* the projId "" of a rejection receipt and of a context that never ran
NoId == <<>>

\* a JobMeta: Kind and StartTs, and the run and job it was produced for
NoJobMeta == [Kind |-> "", StartTs |-> ZeroTs, run |-> 0, job |-> 0]

\* ctx.projMeta == nil (run 0: the meta of no run)
NoMeta == [Name |-> "", StartTs |-> ZeroTs, EndTs |-> ZeroTs, ErrMsg |-> NoErr,
           Finished |-> FALSE, JobMetas |-> <<>>, run |-> 0]

VARIABLES
    \* ---- master: ProjectCtx (masterproj.go:52-61)
    idx, free, projId, config, proj, projMeta,
    \* the projRunner goroutines, by admission number
    drivers,
    \* time.Now() of the master process
    now,
    \* the receipt the latest runProj call returned
    receipt,
    \* the queryProjStatusHandler call in progress: what it read and computed
    qresp

mvars == <<idx, free, projId, config, proj, projMeta, drivers, now, receipt>>

VARIABLES
    \* ---- worker: TaskCtx (workertask.go:27-42)
    tsk, wgFinish, taskletCtxList, todoTasklets, doneTasklets,
    err, wfree, total, done, finished,
    \* the handleTaskReq goroutines by task id, the executors by executor id
    handlers, executors,
    \* tasks admitted so far, and the answer of the latest taskRecepiant call
    admitted, resp,
    \* what the task object of the running handler has seen:
    \* tasklets GetNextTasklet yielded, appendDoneTasklet calls, ReduceTasklets
    \* calls and the sequence passed, SetError calls and the error passed
    yielded, appendCalls, reduceCalls, reduced, setErrorCalls, taskError,
    \* the non-nil TaskletCtxs NewTaskletCtx returned, Close() calls of each
    ctxMade, closeCnt

wctx == <<tsk, wgFinish, taskletCtxList, todoTasklets, doneTasklets,
          err, wfree, total, done, finished>>

wghost == <<yielded, appendCalls, reduceCalls, reduced, setErrorCalls, taskError,
            ctxMade, closeCnt>>

wvars == <<wctx, handlers, executors, admitted, resp, wghost>>

vars == <<mvars, qresp, wvars>>

\* qresp when no queryProjStatusHandler call is in progress
NoResp == [fault |-> FALSE, snap |-> NoMeta, live |-> NoJobMeta, meta |-> NoMeta,
           busy |-> FALSE]

\* a step of the master: the worker is another process, and a status query
\* (which snapshots the meta under the mutex and computes on its copy) is run
\* to its response before the master's next step
MasterFrame ==
    /\ qresp = NoResp
    /\ UNCHANGED <<qresp, wvars>>

\* a step of the worker: the master is another process
WorkerFrame == UNCHANGED <<mvars, qresp>>


\* the projRunner goroutines ever started, by admission number
Runs == 1..(MaxRuns + 1)

\* a goroutine that was not started, or has returned
Idle == [pc |-> "none", proj |-> NoProj, k |-> 0, err |-> NoErr,
         jmeta |-> NoJobMeta]

Returned == [Idle EXCEPT !.pc = "done"]

Alive(d) == drivers[d].pc \notin {"none", "done"}

(***************************************************************************)
(* ProjectCtx methods.  Each runs under ctx.mutex, hence atomically.       *)
(***************************************************************************)
\* %d of a number that is not negative: its decimal digits
RECURSIVE Digits(_)
Digits(n) ==
    LET digit == <<"0", "1", "2", "3", "4", "5", "6", "7", "8", "9">>[(n % 10) + 1]
    IN IF n < 10 THEN <<digit>> ELSE Append(Digits(n \div 10), digit)

\* fmt.Sprintf("proj%d-%d", ts, i), as the sequence of its pieces
FmtProjId(ts, i) == <<"proj">> \o Digits(ts) \o <<"-">> \o Digits(i)

\* an id made of the timestamp alone
makeProjId_TsOnly == <<"proj">> \o Digits(now)

\* makeProjId: the id it returns; its ctx.idx++ is done where it is called
makeProjId == FmtProjId(now, idx)

\* checkAndUnsetFree with the stores moved before the test of ctx.free
checkAndUnsetFree_StoreFirst(p, c) ==
    /\ proj' = p
    /\ config' = c
    /\ IF ~free
       THEN /\ receipt' = [ProjId |-> NoId,
                           ErrMsg |-> [text |-> "Project in running", id |-> projId]]
            /\ UNCHANGED <<idx, free, projId>>
       ELSE /\ free' = FALSE
            /\ projId' = makeProjId
            /\ idx' = idx + 1
            /\ receipt' = [ProjId |-> makeProjId,
                           ErrMsg |-> [text |-> "", id |-> NoId]]

\* checkAndUnsetFree: the (projId, err) it returns is written to the receipt
checkAndUnsetFree(p, c) ==
    IF ~free
    THEN /\ receipt' = [ProjId |-> NoId,
                        ErrMsg |-> [text |-> "Project in running", id |-> projId]]
         /\ UNCHANGED <<idx, free, projId, config, proj>>
    ELSE /\ free' = FALSE
         /\ proj' = p
         /\ config' = c
         /\ projId' = makeProjId
         /\ idx' = idx + 1
         /\ receipt' = [ProjId |-> makeProjId,
                        ErrMsg |-> [text |-> "", id |-> NoId]]

\* start: a fresh ProjMeta named after ctx.proj, StartTs = now
start(d) ==
    projMeta' = [Name |-> GetName(proj), StartTs |-> now, EndTs |-> ZeroTs,
                 ErrMsg |-> NoErr, Finished |-> FALSE, JobMetas |-> <<>>,
                 run |-> d]

\* finish(err)
finish(e) ==
    /\ projMeta' = [projMeta EXCEPT !.ErrMsg = IF e # NoErr THEN e ELSE @,
                                    !.Finished = TRUE,
                                    !.EndTs = now]
    /\ free' = TRUE

\* insertJobMeta(jmeta)
insertJobMeta(jm) ==
    projMeta' = [projMeta EXCEPT !.JobMetas = Append(@, jm)]

\* snapshotProjMeta: nil, or a copy of the meta
snapshotProjMeta == projMeta

(***************************************************************************)
(* runProj(proj, config): admission, and on success `go projRunner()`.     *)
(***************************************************************************)
runProj(p, c) ==
    /\ checkAndUnsetFree(p, c)
    /\ drivers' = IF receipt'.ErrMsg.text = ""
                  THEN [drivers EXCEPT ![idx'] = [Idle EXCEPT !.pc = "start"]]
                  ELSE drivers
    /\ UNCHANGED <<projMeta, now>>
    /\ MasterFrame

(***************************************************************************)
(* projRunner, one step at a time.  d is the goroutine.                    *)
(***************************************************************************)
\* where the for loop over proj.GetJobs() goes once job k-1 is done
LoopPc(p, k) == IF k <= Len(GetJobs(p)) THEN "runJob" ELSE "projFinish"

\* line 123: projctx.start()
DrvStart(d) ==
    /\ drivers[d].pc = "start"
    /\ start(d)
    /\ drivers' = [drivers EXCEPT ![d].pc = "init"]
    /\ UNCHANGED <<idx, free, projId, config, proj, now, receipt>>
    /\ MasterFrame

\* lines 124-125: proj := projctx.proj; proj.Init(projctx.config)
DrvInit(d) ==
    /\ drivers[d].pc = "init"
    /\ \E ok \in BOOLEAN :
         drivers' = [drivers EXCEPT ![d] =
                       IF ok
                       THEN [drivers[d] EXCEPT !.proj = proj, !.k = 1,
                                               !.pc = LoopPc(proj, 1)]
                       ELSE [drivers[d] EXCEPT !.proj = proj, !.err = InitErr,
                                               !.pc = "finishInit"]]
    /\ UNCHANGED <<idx, free, projId, config, proj, projMeta, now, receipt>>
    /\ MasterFrame

\* lines 126-128: projctx.finish(err); return
DrvFinishInit(d) ==
    /\ drivers[d].pc = "finishInit"
    /\ finish(drivers[d].err)
    /\ drivers' = [drivers EXCEPT ![d] = Returned]
    /\ UNCHANGED <<idx, projId, config, proj, now, receipt>>
    /\ MasterFrame

\* line 131: jmeta, err := runJob(job, proj.GetEnv())
DrvRunJob(d) ==
    /\ drivers[d].pc = "runJob"
    /\ \E ok \in BOOLEAN :
         drivers' = [drivers EXCEPT
                       ![d].jmeta = [Kind |-> GetJobs(drivers[d].proj)[drivers[d].k],
                                     StartTs |-> now,
                                     run |-> d, job |-> drivers[d].k],
                       ![d].err = IF ok THEN NoErr ELSE RunJobErr,
                       ![d].pc = "insert"]
    /\ UNCHANGED <<idx, free, projId, config, proj, projMeta, now, receipt>>
    /\ MasterFrame

\* lines 132-134: projctx.insertJobMeta(jmeta); wrap the error if any
DrvInsert(d) ==
    /\ drivers[d].pc = "insert"
    /\ insertJobMeta(drivers[d].jmeta)
    /\ drivers' = [drivers EXCEPT ![d] =
                     IF drivers[d].err # NoErr
                     THEN [drivers[d] EXCEPT
                             !.err = JobErr(GetJobs(drivers[d].proj)[drivers[d].k],
                                            drivers[d].err),
                             !.jmeta = Idle.jmeta,
                             !.pc = "finishJob"]
                     ELSE [drivers[d] EXCEPT
                             !.k = drivers[d].k + 1,
                             !.jmeta = Idle.jmeta,
                             !.pc = LoopPc(drivers[d].proj, drivers[d].k + 1)]]
    /\ UNCHANGED <<idx, free, projId, config, proj, now, receipt>>
    /\ MasterFrame

\* where `break` at line 137 leaves the driver: after the loop, at line 140
AfterBreak == "projFinish"

\* lines 135-137: projctx.finish(err); break
DrvFinishJob(d) ==
    /\ drivers[d].pc = "finishJob"
    /\ finish(drivers[d].err)
    /\ drivers' = [drivers EXCEPT ![d] =
                     IF AfterBreak = "done" THEN Returned
                     ELSE [drivers[d] EXCEPT !.pc = AfterBreak]]
    /\ UNCHANGED <<idx, projId, config, proj, now, receipt>>
    /\ MasterFrame

\* line 140: err := proj.Finish()
DrvProjFinish(d) ==
    /\ drivers[d].pc = "projFinish"
    /\ \E ok \in BOOLEAN :
         drivers' = [drivers EXCEPT ![d].err = IF ok THEN NoErr ELSE FinishErr,
                                    ![d].pc = "finishFin"]
    /\ UNCHANGED <<idx, free, projId, config, proj, projMeta, now, receipt>>
    /\ MasterFrame

\* lines 141-143 (err != nil) and 145 (finish(nil))
DrvFinishFin(d) ==
    /\ drivers[d].pc = "finishFin"
    /\ finish(drivers[d].err)
    /\ drivers' = [drivers EXCEPT ![d] = Returned]
    /\ UNCHANGED <<idx, projId, config, proj, now, receipt>>
    /\ MasterFrame

projRunner(d) ==
    \/ DrvStart(d)
    \/ DrvInit(d)
    \/ DrvFinishInit(d)
    \/ DrvRunJob(d)
    \/ DrvInsert(d)
    \/ DrvFinishJob(d)
    \/ DrvProjFinish(d)
    \/ DrvFinishFin(d)

\* the master's clock advances
Tick ==
    /\ now < MaxTime
    /\ now' = now + 1
    /\ UNCHANGED <<idx, free, projId, config, proj, projMeta, drivers, receipt>>
    /\ MasterFrame

(***************************************************************************)
(* queryProjStatusHandler.  jobctx.snapshotJobMeta() is the job runner's   *)
(* live JobMeta, an input here.                                            *)
(***************************************************************************)
\* the live JobMetas the job runner may report; Kind "" when no job runs
LiveJobMetas ==
    {NoJobMeta} \cup
    {[Kind |-> k, StartTs |-> t, run |-> 0, job |-> 0] :
        k \in {"map", "reduce"}, t \in 1..MaxTime}

\* lines 193-203 for a non-nil pmeta: the ProjMeta handed to FmtResp
Augment(pmeta, jmeta) ==
    LET jmetas == pmeta.JobMetas
    IN IF jmeta.Kind = "" THEN pmeta
       ELSE IF Len(jmetas) > 0
       THEN LET last == jmetas[Len(jmetas)]
            IN IF last.Kind # jmeta.Kind /\ last.StartTs # jmeta.StartTs
               THEN [pmeta EXCEPT !.JobMetas = Append(jmetas, jmeta)]
               ELSE pmeta
       ELSE [pmeta EXCEPT !.JobMetas = Append(jmetas, jmeta)]

\* lines 191-203: pmeta.JobMetas of a nil pmeta is a nil dereference
queryProjStatusHandler(jmeta) ==
    /\ qresp = NoResp
    /\ LET pmeta == snapshotProjMeta
       IN qresp' = IF pmeta = NoMeta
                   THEN [fault |-> TRUE, snap |-> pmeta, live |-> jmeta,
                         meta |-> NoMeta, busy |-> TRUE]
                   ELSE [fault |-> FALSE, snap |-> pmeta, live |-> jmeta,
                         meta |-> Augment(pmeta, jmeta), busy |-> TRUE]
    /\ UNCHANGED mvars
    /\ UNCHANGED wvars

\* line 204: server.FmtResp(w, nil, pmeta); the call is over
FmtResp ==
    /\ qresp # NoResp
    /\ qresp' = NoResp
    /\ UNCHANGED mvars
    /\ UNCHANGED <<mvars, wvars>>

(***************************************************************************)
(* Worker: workertask.go.                                                  *)
(***************************************************************************)
\* workertask.go:20,23,24
BUF_TASKLET_CNT == 8

RUNNING_EXECUTOR_CNT == 2

TASKLET_MAX_RETRY == 3

\* tasks the worker admits in one behaviour
MaxTasks == 2
\* tasklets GetNextTasklet yields for one task before it must return nil
MaxYield == 2

Tids == 1..MaxTasks

Eids == 0..(RUNNING_EXECUTOR_CNT - 1)

\* the kinds of the task generators of the registry; the kind of task tid
TaskKinds == {"map", "reduce"}

KindOf(tid) == IF tid % 2 = 1 THEN "map" ELSE "reduce"

\* the values GetTaskletCnt() may declare
TaskletCnts == {0, 1, MaxYield}

\* ctx.tsk == nil
NoTask == [Tid |-> 0, Kind |-> ""]

\* nil error, and the errors of Task.Init and Tasklet.Execute
NilErr == ""

TaskInitErr == "task init failed"

ExecuteErr == "tasklet failed"

\* a nil task.Tasklet / a nil task.TaskletCtx
NoTasklet == <<0, 0>>

NoCtx == <<0, 0>>

\* a channel: its buffer, its capacity, whether it was closed
NilChan == [buf |-> <<>>, cap |-> 0, closed |-> FALSE]

MakeChan(n) == [buf |-> <<>>, cap |-> n, closed |-> FALSE]

\* taskRecepiant's answers
RespNone == [err |-> "", kind |-> ""]

RespBusy(kind) == [err |-> "Worker busy with task", kind |-> kind]

RespUnsupported == [err |-> "Task not supported", kind |-> ""]

HIdle == [pc |-> "none", i |-> 0]

HReturned == [pc |-> "done", i |-> 0]

EIdle == [pc |-> "none", tid |-> 0, c |-> NoCtx, tasklet |-> NoTasklet,
          i |-> 0, err |-> NilErr]

HandlerAlive(t) == handlers[t].pc \notin {"none", "done"}

ExecutorAlive(e) == executors[e].pc \notin {"none", "exited"}

(***************************************************************************)
(* TaskCtx methods.                                                        *)
(***************************************************************************)
\* kickoff (timestamps are not modelled on the worker)
tskctx_kickoff ==
    /\ err' = NilErr
    /\ total' = 0
    /\ done' = 0
    /\ finished' = FALSE

\* finish
tskctx_finish == finished' = TRUE

\* init with doneTasklets made without a buffer
tskctx_init_DoneUnbuffered(taskletCnt) ==
    /\ todoTasklets' = MakeChan(BUF_TASKLET_CNT)
    /\ doneTasklets' = MakeChan(0)
    /\ taskletCtxList' = <<>>
    /\ err' = NilErr
    /\ total' = taskletCnt

\* init with doneTasklets buffered like todoTasklets
tskctx_init_DoneBuf(taskletCnt) ==
    /\ todoTasklets' = MakeChan(BUF_TASKLET_CNT)
    /\ doneTasklets' = MakeChan(BUF_TASKLET_CNT)
    /\ taskletCtxList' = <<>>
    /\ err' = NilErr
    /\ total' = taskletCnt

\* init, for taskletCnt := ctx.tsk.GetTaskletCnt()
tskctx_init(taskletCnt) ==
    /\ todoTasklets' = MakeChan(BUF_TASKLET_CNT)
    /\ doneTasklets' = MakeChan(taskletCnt)
    /\ taskletCtxList' = <<>>
    /\ err' = NilErr
    /\ total' = taskletCnt

\* aborted
tskctx_aborted == err # NilErr

\* setErr
tskctx_setErr(e) == err' = e

\* checkAndUnsetFree without the test of ctx.free
tskctx_checkAndUnsetFree_NoTest(t) ==
    /\ wfree' = FALSE
    /\ tsk' = t
    /\ resp' = RespNone

\* checkAndUnsetFree: the error it returns is written to resp
tskctx_checkAndUnsetFree(t) ==
    IF ~wfree
    THEN /\ resp' = RespBusy(tsk.Kind)
         /\ UNCHANGED <<wfree, tsk>>
    ELSE /\ wfree' = FALSE
         /\ tsk' = t
         /\ resp' = RespNone

\* setFree
tskctx_setFree ==
    /\ wfree' = TRUE
    /\ tsk' = NoTask

\* getTaskStatus: nil (NoTask as Tid 0) when free
NoStatus == [Tid |-> 0, Finished |-> FALSE, Total |-> 0, Done |-> 0]

tskctx_getTaskStatus ==
    IF wfree THEN NoStatus
    ELSE [Tid |-> tsk.Tid, Finished |-> finished, Total |-> total, Done |-> done]

(***************************************************************************)
(* taskRecepiant(tspec): spawnTask, admission, `go handleTaskReq(tsk)`.    *)
(***************************************************************************)
\* lines 310-313: the registry has no generator for tspec.Kind, or it fails
SpawnFails ==
    /\ resp' = RespUnsupported
    /\ UNCHANGED <<wctx, handlers, executors, admitted, wghost>>
    /\ WorkerFrame

\* lines 314-318, for the task spawnTask returned
Admission ==
    /\ admitted < MaxTasks \/ ~wfree
    /\ LET tid == IF admitted < MaxTasks THEN admitted + 1 ELSE MaxTasks
           t == [Tid |-> tid, Kind |-> KindOf(tid)]
       IN /\ tskctx_checkAndUnsetFree(t)
          /\ IF resp' = RespNone
             THEN /\ handlers' = [handlers EXCEPT ![tid] = [pc |-> "kickoff", i |-> 0]]
                  /\ admitted' = tid
                  /\ yielded' = 0
                  /\ appendCalls' = 0
                  /\ reduceCalls' = 0
                  /\ reduced' = <<>>
                  /\ setErrorCalls' = 0
                  /\ taskError' = NilErr
             ELSE UNCHANGED <<handlers, admitted, yielded, appendCalls, reduceCalls,
                              reduced, setErrorCalls, taskError>>
    /\ UNCHANGED <<wgFinish, taskletCtxList, todoTasklets, doneTasklets,
                   err, total, done, finished, executors, ctxMade, closeCnt>>
    /\ WorkerFrame

taskRecepiant ==
    \/ SpawnFails
    \/ Admission

(***************************************************************************)
(* handleTaskReq(tsk), one step at a time.  h is the task id.              *)
(***************************************************************************)
\* the contexts of a list, as a set
CtxsOf(list) == {list[n] : n \in 1..Len(list)}

\* line 162: tskctx.kickoff()
HKickoff(h) ==
    /\ handlers[h].pc = "kickoff"
    /\ tskctx_kickoff
    /\ handlers' = [handlers EXCEPT ![h].pc = "taskInit"]
    /\ UNCHANGED <<tsk, wgFinish, taskletCtxList, todoTasklets, doneTasklets,
                   wfree, executors, admitted, resp, wghost>>
    /\ WorkerFrame

\* line 163: tsk.Init(RUNNING_EXECUTOR_CNT)
HTaskInit(h) ==
    /\ handlers[h].pc = "taskInit"
    /\ \E ok \in BOOLEAN :
         handlers' = [handlers EXCEPT ![h].pc = IF ok THEN "ctxInit" ELSE "initErr"]
    /\ UNCHANGED <<wctx, executors, admitted, resp, wghost>>
    /\ WorkerFrame

\* line 164: tskctx.init().  The TaskletCtxs of the list it drops can no
\* longer be reached: what was recorded about them is dropped with it.
HCtxInit(h) ==
    /\ handlers[h].pc = "ctxInit"
    /\ \E cnt \in TaskletCnts : tskctx_init(cnt)
    /\ handlers' = [handlers EXCEPT ![h] = [pc |-> "prepare", i |-> 0]]
    /\ ctxMade' = ctxMade \ CtxsOf(taskletCtxList)
    /\ closeCnt' = [c \in DOMAIN closeCnt |->
                      IF c \in ctxMade' THEN closeCnt[c] ELSE 0]
    /\ UNCHANGED <<tsk, wgFinish, wfree, done, finished,
                   executors, admitted, resp, yielded, appendCalls, reduceCalls,
                   reduced, setErrorCalls, taskError>>
    /\ WorkerFrame

\* prepareExecutors, one iteration: c := tsk.NewTaskletCtx() (nil or not),
\* wgFinish.Add(1), go taskletExecutor(i, ctx, c), append c when not nil
prepareExecutors(h) ==
    /\ handlers[h].pc = "prepare"
    /\ LET i == handlers[h].i
       IN \E c \in {NoCtx, <<h, i + 1>>} :
            /\ wgFinish' = wgFinish + 1
            /\ executors' = [executors EXCEPT ![i] =
                               [EIdle EXCEPT !.pc = "check", !.tid = h, !.c = c]]
            /\ taskletCtxList' = IF c # NoCtx THEN Append(taskletCtxList, c)
                                 ELSE taskletCtxList
            /\ ctxMade' = IF c # NoCtx THEN ctxMade \cup {c} ELSE ctxMade
            /\ handlers' = [handlers EXCEPT ![h] =
                              IF i + 1 < RUNNING_EXECUTOR_CNT
                              THEN [pc |-> "prepare", i |-> i + 1]
                              ELSE [pc |-> "assign", i |-> 0]]
    /\ UNCHANGED <<tsk, todoTasklets, doneTasklets, err, wfree, total, done,
                   finished, admitted, resp, yielded, appendCalls, reduceCalls,
                   reduced, setErrorCalls, taskError, closeCnt>>
    /\ WorkerFrame

\* assignTasklets lines 188-197: the abort check, GetNextTasklet, close on nil
AssignNext(h) ==
    /\ handlers[h].pc = "assign"
    /\ IF tskctx_aborted
       THEN /\ handlers' = [handlers EXCEPT ![h] = [pc |-> "wait", i |-> 0]]
            /\ UNCHANGED <<todoTasklets, yielded>>
       ELSE \/ /\ handlers[h].i < MaxYield
               /\ handlers' = [handlers EXCEPT ![h].pc = "send"]
               /\ yielded' = yielded + 1
               /\ UNCHANGED todoTasklets
            \/ /\ todoTasklets' = [todoTasklets EXCEPT !.closed = TRUE]
               /\ handlers' = [handlers EXCEPT ![h] = [pc |-> "wait", i |-> 0]]
               /\ UNCHANGED yielded
    /\ UNCHANGED <<tsk, wgFinish, taskletCtxList, doneTasklets, err, wfree,
                   total, done, finished, executors, admitted, resp, appendCalls,
                   reduceCalls, reduced, setErrorCalls, taskError, ctxMade, closeCnt>>
    /\ WorkerFrame

\* assignTasklets lines 199-200: ctx.todoTasklets <- tasklet; i++
AssignSend(h) ==
    /\ handlers[h].pc = "send"
    /\ Len(todoTasklets.buf) < todoTasklets.cap
    /\ todoTasklets' = [todoTasklets EXCEPT
                          !.buf = Append(@, <<h, handlers[h].i + 1>>)]
    /\ handlers' = [handlers EXCEPT ![h] = [pc |-> "assign", i |-> handlers[h].i + 1]]
    /\ UNCHANGED <<tsk, wgFinish, taskletCtxList, doneTasklets, err, wfree,
                   total, done, finished, executors, admitted, resp, wghost>>
    /\ WorkerFrame

assignTasklets(h) ==
    \/ AssignNext(h)
    \/ AssignSend(h)

\* waitForTaskDone: wgFinish.Wait()
waitForTaskDone(h) ==
    /\ handlers[h].pc = "wait"
    /\ wgFinish = 0
    /\ handlers' = [handlers EXCEPT ![h].pc = "release"]
    /\ UNCHANGED <<wctx, executors, admitted, resp, wghost>>
    /\ WorkerFrame

\* releaseExecutors: c.Close() for every c of taskletCtxList
releaseExecutors(h) ==
    /\ handlers[h].pc = "release"
    /\ closeCnt' = [c \in DOMAIN closeCnt |->
                      IF c \in CtxsOf(taskletCtxList) THEN closeCnt[c] + 1
                      ELSE closeCnt[c]]
    /\ handlers' = [handlers EXCEPT ![h].pc = "abortOrReduce"]
    /\ UNCHANGED <<wctx, executors, admitted, resp, yielded, appendCalls,
                   reduceCalls, reduced, setErrorCalls, taskError, ctxMade>>
    /\ WorkerFrame

\* lines 170-171: tskctx.setErr(err) for the error of tsk.Init
HInitErr(h) ==
    /\ handlers[h].pc = "initErr"
    /\ tskctx_setErr(TaskInitErr)
    /\ handlers' = [handlers EXCEPT ![h].pc = "abortOrReduce"]
    /\ UNCHANGED <<tsk, wgFinish, taskletCtxList, todoTasklets, doneTasklets,
                   wfree, total, done, finished, executors, admitted, resp, wghost>>
    /\ WorkerFrame

\* reduceTasklets with the slice made of length (not capacity) len(doneTasklets)
reduceTasklets_LenNotCap(h) ==
    /\ doneTasklets' = [doneTasklets EXCEPT !.buf = <<>>, !.closed = TRUE]
    /\ reduced' = [n \in 1..Len(doneTasklets.buf) |-> NoTasklet] \o doneTasklets.buf
    /\ reduceCalls' = reduceCalls + 1
    /\ UNCHANGED <<setErrorCalls, taskError>>

\* reduceTasklets: close(doneTasklets), drain it, tsk.ReduceTasklets(tasklets)
reduceTasklets(h) ==
    /\ doneTasklets' = [doneTasklets EXCEPT !.buf = <<>>, !.closed = TRUE]
    /\ reduced' = doneTasklets.buf
    /\ reduceCalls' = reduceCalls + 1
    /\ UNCHANGED <<setErrorCalls, taskError>>

\* lines 173-177 without the else: reduceTasklets also runs after SetError
HAbortOrReduce_NoElse(h) ==
    /\ handlers[h].pc = "abortOrReduce"
    /\ doneTasklets' = [doneTasklets EXCEPT !.buf = <<>>, !.closed = TRUE]
    /\ reduced' = doneTasklets.buf
    /\ reduceCalls' = reduceCalls + 1
    /\ IF tskctx_aborted
       THEN /\ taskError' = err
            /\ setErrorCalls' = setErrorCalls + 1
       ELSE UNCHANGED <<setErrorCalls, taskError>>
    /\ handlers' = [handlers EXCEPT ![h].pc = "finish"]
    /\ UNCHANGED <<tsk, wgFinish, taskletCtxList, todoTasklets, err, wfree,
                   total, done, finished, executors, admitted, resp,
                   yielded, appendCalls, ctxMade, closeCnt>>
    /\ WorkerFrame

\* lines 173-177: aborted ? tsk.SetError(tskctx.err) : reduceTasklets
HAbortOrReduce(h) ==
    /\ handlers[h].pc = "abortOrReduce"
    /\ IF tskctx_aborted
       THEN /\ taskError' = err
            /\ setErrorCalls' = setErrorCalls + 1
            /\ UNCHANGED <<doneTasklets, reduced, reduceCalls>>
       ELSE reduceTasklets(h)
    /\ handlers' = [handlers EXCEPT ![h].pc = "finish"]
    /\ UNCHANGED <<tsk, wgFinish, taskletCtxList, todoTasklets, err, wfree,
                   total, done, finished, executors, admitted, resp,
                   yielded, appendCalls, ctxMade, closeCnt>>
    /\ WorkerFrame

\* line 178: tskctx.finish()
HFinish(h) ==
    /\ handlers[h].pc = "finish"
    /\ tskctx_finish
    /\ handlers' = [handlers EXCEPT ![h].pc = "setFree"]
    /\ UNCHANGED <<tsk, wgFinish, taskletCtxList, todoTasklets, doneTasklets,
                   err, wfree, total, done, executors, admitted, resp, wghost>>
    /\ WorkerFrame

\* lines 179-181: generateTaskReport (reads only), tskctx.setFree(),
\* go sendTaskReport(report) (touches no TaskCtx field)
HSetFree(h) ==
    /\ handlers[h].pc = "setFree"
    /\ tskctx_setFree
    /\ handlers' = [handlers EXCEPT ![h] = HReturned]
    /\ UNCHANGED <<wgFinish, taskletCtxList, todoTasklets, doneTasklets,
                   err, total, done, finished, executors, admitted, resp, wghost>>
    /\ WorkerFrame

handleTaskReq(h) ==
    \/ HKickoff(h)
    \/ HTaskInit(h)
    \/ HCtxInit(h)
    \/ prepareExecutors(h)
    \/ assignTasklets(h)
    \/ waitForTaskDone(h)
    \/ releaseExecutors(h)
    \/ HInitErr(h)
    \/ HAbortOrReduce(h)
    \/ HFinish(h)
    \/ HSetFree(h)

(***************************************************************************)
(* taskletExecutor(eid, ctx, c), one step at a time.                       *)
(***************************************************************************)
\* the deferred ctx.wgFinish.Done() of an executor that leaves its loop
ExecutorExit(e) ==
    /\ wgFinish' = wgFinish - 1
    /\ executors' = [executors EXCEPT ![e] =
                       [EIdle EXCEPT !.pc = "exited", !.tid = executors[e].tid,
                                     !.c = executors[e].c]]

\* lines 209-212: if ctx.aborted() { break }
ExCheck(e) ==
    /\ executors[e].pc = "check"
    /\ IF tskctx_aborted
       THEN ExecutorExit(e)
       ELSE /\ executors' = [executors EXCEPT ![e].pc = "recv"]
            /\ UNCHANGED wgFinish
    /\ UNCHANGED <<tsk, taskletCtxList, todoTasklets, doneTasklets, err, wfree,
                   total, done, finished, handlers, admitted, resp, wghost>>
    /\ WorkerFrame

\* lines 214-218: tasklet, ok := <-ctx.todoTasklets; if !ok { break }
ExRecv(e) ==
    /\ executors[e].pc = "recv"
    /\ IF todoTasklets.buf # <<>>
       THEN /\ todoTasklets' = [todoTasklets EXCEPT !.buf = Tail(@)]
            /\ executors' = [executors EXCEPT ![e].pc = "exec",
                                              ![e].tasklet = Head(todoTasklets.buf),
                                              ![e].i = 0]
            /\ UNCHANGED wgFinish
       ELSE /\ todoTasklets.closed
            /\ ExecutorExit(e)
            /\ UNCHANGED todoTasklets
    /\ UNCHANGED <<tsk, taskletCtxList, doneTasklets, err, wfree,
                   total, done, finished, handlers, admitted, resp, wghost>>
    /\ WorkerFrame

\* the retry loop with `i <= TASKLET_MAX_RETRY` as its condition
AfterExecute_OneMore(n, e) ==
    IF e = NilErr THEN "append"
    ELSE IF n <= TASKLET_MAX_RETRY THEN "exec"
    ELSE "setErr"

\* where the retry loop goes after attempt number n returned e
AfterExecute(n, e) ==
    IF e = NilErr THEN "append"
    ELSE IF n < TASKLET_MAX_RETRY THEN "exec"
    ELSE "setErr"

\* lines 220-225: one pass of the retry loop, err = tasklet.Execute(c)
ExExecute(e) ==
    /\ executors[e].pc = "exec"
    /\ \E r \in {NilErr, ExecuteErr} :
         executors' = [executors EXCEPT ![e].i = executors[e].i + 1,
                                        ![e].err = r,
                                        ![e].pc = AfterExecute(executors[e].i + 1, r)]
    /\ UNCHANGED <<wctx, handlers, admitted, resp, wghost>>
    /\ WorkerFrame

\* lines 227-231: tskctx.setErr(err); break
ExSetErr(e) ==
    /\ executors[e].pc = "setErr"
    /\ tskctx_setErr(executors[e].err)
    /\ ExecutorExit(e)
    /\ UNCHANGED <<tsk, taskletCtxList, todoTasklets, doneTasklets, wfree,
                   total, done, finished, handlers, admitted, resp, wghost>>
    /\ WorkerFrame

\* appendDoneTasklet line 110: ctx.doneTasklets <- tasklet
ExAppendSend(e) ==
    /\ executors[e].pc = "append"
    /\ Len(doneTasklets.buf) < doneTasklets.cap
    /\ doneTasklets' = [doneTasklets EXCEPT !.buf = Append(@, executors[e].tasklet)]
    /\ executors' = [executors EXCEPT ![e].pc = "inc"]
    /\ appendCalls' = appendCalls + 1
    /\ UNCHANGED <<tsk, wgFinish, taskletCtxList, todoTasklets, err, wfree,
                   total, done, finished, handlers, admitted, resp, yielded,
                   reduceCalls, reduced, setErrorCalls, taskError, ctxMade, closeCnt>>
    /\ WorkerFrame

\* appendDoneTasklet lines 111-113: ctx.done++
ExAppendInc(e) ==
    /\ executors[e].pc = "inc"
    /\ done' = done + 1
    /\ executors' = [executors EXCEPT ![e] =
                       [EIdle EXCEPT !.pc = "check", !.tid = executors[e].tid,
                                     !.c = executors[e].c]]
    /\ UNCHANGED <<tsk, wgFinish, taskletCtxList, todoTasklets, doneTasklets,
                   err, wfree, total, finished, handlers, admitted, resp, wghost>>
    /\ WorkerFrame

tskctx_appendDoneTasklet(e) ==
    \/ ExAppendSend(e)
    \/ ExAppendInc(e)

taskletExecutor(e) ==
    \/ ExCheck(e)
    \/ ExRecv(e)
    \/ ExExecute(e)
    \/ ExSetErr(e)
    \/ tskctx_appendDoneTasklet(e)


(***************************************************************************)
(* The two processes.                                                      *)
(***************************************************************************)
MasterInit ==
    /\ idx = 0
    /\ free = TRUE
    /\ projId = NoId
    /\ config = ""
    /\ proj = NoProj
    /\ projMeta = NoMeta
    /\ drivers = [d \in Runs |-> Idle]
    /\ now = 1
    /\ receipt = [ProjId |-> NoId, ErrMsg |-> [text |-> "", id |-> NoId]]

\* workertask.go:17 and the package init at 345-347
WorkerInit ==
    /\ tsk = NoTask
    /\ wgFinish = 0
    /\ taskletCtxList = <<>>
    /\ todoTasklets = NilChan
    /\ doneTasklets = NilChan
    /\ err = NilErr
    /\ wfree = TRUE
    /\ total = 0
    /\ done = 0
    /\ finished = FALSE
    /\ handlers = [t \in Tids |-> HIdle]
    /\ executors = [e \in Eids |-> EIdle]
    /\ admitted = 0
    /\ resp = RespNone
    /\ yielded = 0
    /\ appendCalls = 0
    /\ reduceCalls = 0
    /\ reduced = <<>>
    /\ setErrorCalls = 0
    /\ taskError = NilErr
    /\ ctxMade = {}
    /\ closeCnt = [c \in Tids \X (1..RUNNING_EXECUTOR_CNT) |-> 0]

Init == MasterInit /\ WorkerInit /\ qresp = NoResp

\* runProj calls, of which at most cap are admitted
RunProjCalls(cap) ==
    /\ idx < cap \/ ~free
    /\ \E p \in Projects, c \in Configs : runProj(p, c)

RunProjCall == RunProjCalls(MaxRuns)

DriverStep == \E d \in Runs : projRunner(d)

MasterNext ==
    \/ RunProjCall
    \/ DriverStep
    \/ Tick

MasterSpec == Init /\ [][MasterNext]_vars

\* the master with one more admission
RunProjCallMore == RunProjCalls(MaxRuns + 1)

OneMoreRunNext ==
    \/ RunProjCallMore
    \/ DriverStep
    \/ Tick

OneMoreRunSpec == Init /\ [][OneMoreRunNext]_vars

\* the master with status queries
QueryCall == \E jmeta \in LiveJobMetas : queryProjStatusHandler(jmeta)

QueryNext ==
    \/ MasterNext
    \/ QueryCall
    \/ FmtResp

QuerySpec == Init /\ [][QueryNext]_vars

HandlerStep == \E h \in Tids : handleTaskReq(h)

ExecutorStep == \E e \in Eids : taskletExecutor(e)

WorkerNext ==
    \/ taskRecepiant
    \/ HandlerStep
    \/ ExecutorStep

WorkerSpec == Init /\ [][WorkerNext]_vars

\* The worker at a moment of task 1 (GetTaskletCnt() = BUF_TASKLET_CNT + 2):
\* executor 0 has dequeued the first tasklet and is about to Execute it,
\* executor 1 has not run yet, and the producer has refilled todoTasklets to
\* BUF_TASKLET_CNT entries and holds the next tasklet at its send.
FullChanInit ==
    /\ MasterInit
    /\ qresp = NoResp
    /\ tsk = [Tid |-> 1, Kind |-> KindOf(1)]
    /\ wgFinish = RUNNING_EXECUTOR_CNT
    /\ taskletCtxList = [n \in 1..RUNNING_EXECUTOR_CNT |-> <<1, n>>]
    /\ todoTasklets = [MakeChan(BUF_TASKLET_CNT) EXCEPT
                         !.buf = [n \in 1..BUF_TASKLET_CNT |-> <<1, n + 1>>]]
    /\ doneTasklets = MakeChan(BUF_TASKLET_CNT + 2)
    /\ err = NilErr
    /\ wfree = FALSE
    /\ total = BUF_TASKLET_CNT + 2
    /\ done = 0
    /\ finished = FALSE
    /\ handlers = [t \in Tids |->
                     IF t = 1 THEN [pc |-> "send", i |-> BUF_TASKLET_CNT + 1]
                     ELSE HIdle]
    /\ executors = [e \in Eids |->
                      IF e = 0
                      THEN [EIdle EXCEPT !.pc = "exec", !.tid = 1, !.c = <<1, 1>>,
                                         !.tasklet = <<1, 1>>]
                      ELSE [EIdle EXCEPT !.pc = "check", !.tid = 1, !.c = <<1, e + 1>>]]
    /\ admitted = 1
    /\ resp = RespNone
    /\ yielded = BUF_TASKLET_CNT + 2
    /\ appendCalls = 0
    /\ reduceCalls = 0
    /\ reduced = <<>>
    /\ setErrorCalls = 0
    /\ taskError = NilErr
    /\ ctxMade = {<<1, n>> : n \in 1..RUNNING_EXECUTOR_CNT}
    /\ closeCnt = [c \in Tids \X (1..RUNNING_EXECUTOR_CNT) |-> 0]

FullChanSpec == FullChanInit /\ [][WorkerNext]_vars

(***************************************************************************)
(* Claims about the master.                                                *)
(***************************************************************************)
AliveDrivers == {d \in Runs : Alive(d)}

\* C1: at most one projRunner driver is alive at any instant, and the free
\* flag is true only when no admitted project's driver still has steps to
\* execute.
C1_MasterMutualExclusion ==
    /\ Cardinality(AliveDrivers) <= 1
    /\ free => AliveDrivers = {}

\* a runProj call returned a rejection in this step
RunProjRejected ==
    /\ receipt' # receipt
    /\ receipt'.ErrMsg.text # ""

\* C2: a runProj call made while free = false returns a receipt with an empty
\* ProjId and an ErrMsg naming the projId of the running project, starts no
\* driver and leaves free, projId, idx, proj, config and the project meta
\* unchanged.
C2_RejectionSideEffectFree ==
    [][ /\ (receipt' # receipt /\ ~free) => RunProjRejected
        /\ RunProjRejected =>
             /\ ~free
             /\ receipt'.ProjId = NoId
             /\ receipt'.ErrMsg.id = projId
             /\ projId # NoId
             /\ UNCHANGED <<free, projId, idx, proj, config, projMeta, drivers>>
      ]_vars

\* a call with another project and config than the running one was rejected
C2_Witness ==
    /\ ~free
    /\ receipt.ProjId = NoId
    /\ receipt.ErrMsg.id = projId
    /\ proj = "A" /\ config = "c1"
    /\ projMeta.run = idx /\ Len(projMeta.JobMetas) = 1
    /\ Cardinality(AliveDrivers) = 1

\* C4: once runJob has returned an error for a job of a project, the driver
\* runs no later job, never calls proj.Finish() and does nothing more after
\* the finish(err) that recorded the wrapped error: a driver that is still
\* alive holds no job error once that finish(err) is done.
C4_JobFailureAborts ==
    \A d \in Runs :
        (Alive(d) /\ drivers[d].err.text = "Fail on job") =>
            drivers[d].pc = "finishJob"

(***************************************************************************)
(* Claims about the status query.                                          *)
(***************************************************************************)
\* the last element of a non-empty list
Last(seq) == seq[Len(seq)]

\* C5: queryProjStatus appends the live JobMeta j to the snapshot exactly
\* when j.Kind # "" and the list is empty or its last element differs from j
\* in Kind or in StartTs; otherwise it returns the snapshot's list.
C5_LiveStatusAugmentation ==
    (qresp # NoResp /\ ~qresp.fault) =>
        LET jmetas == qresp.snap.JobMetas
            j == qresp.live
            append == /\ j.Kind # ""
                      /\ \/ jmetas = <<>>
                         \/ Last(jmetas).Kind # j.Kind
                         \/ Last(jmetas).StartTs # j.StartTs
        IN qresp.meta.JobMetas = IF append THEN Append(jmetas, j) ELSE jmetas

(***************************************************************************)
(* Claims about the worker.                                                *)
(***************************************************************************)
AliveHandlers == {h \in Tids : HandlerAlive(h)}

AliveExecutors == {e \in Eids : ExecutorAlive(e)}

\* the handler of the latest admitted task is at or past pc
Past(pcs) == admitted > 0 /\ handlers[admitted].pc \in pcs

\* a taskRecepiant call returned in this step
TaskRecepiantReturned == resp' # resp

\* one handler at a time, its executors with it, and free tells whether
OneHandlerAtATime ==
    /\ Cardinality(AliveHandlers) <= 1
    /\ \A e \in AliveExecutors : executors[e].tid \in AliveHandlers
    /\ wfree => (AliveHandlers = {} /\ AliveExecutors = {})
    /\ ~wfree => AliveHandlers = {tsk.Tid}

\* a step in which a taskRecepiant call made while free = false gets one of
\* the answers of `rejections` and changes nothing else, and in which free
\* becomes true only when the handler is through all its phases
BusyStep(rejections) ==
    /\ (TaskRecepiantReturned /\ ~wfree) =>
         /\ resp' \in rejections
         /\ UNCHANGED <<wctx, handlers, executors, admitted, wghost>>
    /\ (TaskRecepiantReturned /\ resp'.err = "Worker busy with task") => ~wfree
    /\ (~wfree /\ wfree') =>
         /\ handlers[tsk.Tid].pc = "setFree"
         /\ finished
         /\ wgFinish = 0 /\ AliveExecutors = {}
         /\ reduceCalls + setErrorCalls = 1
         /\ \A c \in ctxMade : closeCnt[c] = 1

\* C3 (as amended): at most one handleTaskReq handler (with its executors) is
\* alive at any instant; a taskRecepiant call arriving while free = false is
\* rejected, with the "Worker busy" error naming the running task's kind when
\* spawnTask succeeded and with spawnTask's error otherwise, launches no
\* handler and leaves the TaskCtx of the running task unchanged; free becomes
\* true again only after the handler has passed its wait, release,
\* reduce-or-abort and finish phases.
C3_WorkerMutualExclusion ==
    /\ []OneHandlerAtATime
    /\ [][BusyStep({RespBusy(tsk.Kind), RespUnsupported})]_vars

\* C3 (as stated): every taskRecepiant call arriving while free = false is
\* rejected with the "Worker busy" error.
C3_AlwaysWorkerBusy ==
    /\ []OneHandlerAtATime
    /\ [][BusyStep({RespBusy(tsk.Kind)})]_vars

\* a call was rejected while an executor of the running task is at work
C3_Witness ==
    /\ ~wfree
    /\ resp = RespBusy(tsk.Kind)
    /\ done = 1
    /\ \E e \in Eids : executors[e].pc = "exec" /\ executors[e].tid = tsk.Tid

\* C6: a handler that has passed reduce-or-abort has done exactly one of the
\* two, once: either the context was aborted, SetError got that non-nil
\* error, ReduceTasklets was not called and the tasklets in doneTasklets
\* were left there; or the context was not aborted and ReduceTasklets was
\* called.  ReduceTasklets is never called on an aborted task.
C6_ReduceOrAbortExclusive ==
    /\ reduceCalls + setErrorCalls <= 1
    /\ Past({"kickoff", "taskInit", "ctxInit", "prepare", "assign", "send",
             "wait", "release", "initErr", "abortOrReduce"}) =>
         reduceCalls + setErrorCalls = 0
    /\ Past({"finish", "setFree", "done"}) =>
         /\ reduceCalls + setErrorCalls = 1
         /\ setErrorCalls = 1 =>
              /\ err # NilErr
              /\ taskError = err
              /\ reduced = <<>>
              /\ taskError = IF appendCalls > 0 THEN ExecuteErr ELSE taskError
              /\ taskError = ExecuteErr =>
                   /\ ~doneTasklets.closed
                   /\ Len(doneTasklets.buf) = appendCalls
         /\ reduceCalls = 1 =>
              /\ err = NilErr
              /\ taskError = NilErr

\* a tasklet failed all its attempts after another one was placed in
\* doneTasklets: SetError was called, the placed tasklet was not reduced
C6_Witness ==
    /\ Past({"finish"})
    /\ setErrorCalls = 1
    /\ taskError = ExecuteErr
    /\ Len(doneTasklets.buf) = 1

\* the elements of a sequence
Range(seq) == {seq[n] : n \in 1..Len(seq)}

\* C7: when a task completes without abort, the sequence passed to
\* ReduceTasklets holds every tasklet GetNextTasklet yielded exactly once, and
\* its length is the done counter and the number of appendDoneTasklet calls;
\* a task whose Init succeeds and whose generator yields nothing gets
\* ReduceTasklets called once with the empty sequence, done = 0, not aborted.
C7_SuccessAccounting ==
    Past({"finish", "setFree", "done"}) =>
        /\ reduceCalls = 1 =>
             /\ Range(reduced) = {<<admitted, n>> : n \in 1..yielded}
             /\ Len(reduced) = yielded
             /\ Len(reduced) = done
             /\ Len(reduced) = appendCalls
        /\ (yielded = 0 /\ taskError # TaskInitErr) =>
             /\ reduceCalls = 1
             /\ reduced = <<>>
             /\ done = 0
             /\ err = NilErr

\* two tasklets were reduced in the order opposite to their submission
C7_Witness ==
    /\ Past({"finish"})
    /\ reduceCalls = 1
    /\ reduced = <<<<admitted, 2>>, <<admitted, 1>>>>
    /\ done = 2

\* C8: every dequeued tasklet is passed to Execute at least once and at most
\* TASKLET_MAX_RETRY times, never again after its first success; one that
\* succeeds goes to doneTasklets and is counted in done; one is treated as
\* failed (setErr) only after TASKLET_MAX_RETRY failed attempts.
C8_BoundedRetry ==
    /\ \A e \in Eids :
         LET x == executors[e]
         IN /\ x.pc = "exec" =>
                 /\ x.i < TASKLET_MAX_RETRY
                 /\ x.i > 0 => x.err # NilErr
            /\ x.pc = "setErr" => (x.i = TASKLET_MAX_RETRY /\ x.err # NilErr)
            /\ x.pc \in {"append", "inc"} =>
                 /\ x.i \in 1..TASKLET_MAX_RETRY
                 /\ x.err = NilErr
            /\ x.pc = "inc" => x.tasklet \in Range(doneTasklets.buf)
            /\ x.pc \in {"exec", "setErr", "append"} =>
                 x.tasklet \notin Range(doneTasklets.buf)
    /\ Past({"prepare", "assign", "send", "wait", "release"}) =>
         /\ Len(doneTasklets.buf) =
                done + Cardinality({e \in Eids : executors[e].pc = "inc"})
         /\ err # NilErr => err = ExecuteErr

\* a tasklet that succeeded on its last attempt is in doneTasklets
C8_Witness ==
    \E e \in Eids :
        /\ executors[e].pc = "inc"
        /\ executors[e].i = TASKLET_MAX_RETRY
        /\ executors[e].tasklet \in Range(doneTasklets.buf)

\* no goroutine of the worker's task can take a step
AtRest == ~ENABLED (HandlerStep \/ ExecutorStep)

\* C9: every non-nil TaskletCtx NewTaskletCtx returned is closed exactly once
\* (once the goroutines of a task that yields no more tasklets than it
\* declared have come to rest, each has been closed), never before all
\* executors of its task have exited, and never again later.
C9_TaskletCtxClosedOnce ==
    /\ \A c \in DOMAIN closeCnt :
         /\ closeCnt[c] <= 1
         /\ closeCnt[c] > 0 =>
              /\ c \in ctxMade
              /\ \A e \in AliveExecutors : executors[e].tid # c[1]
    /\ (AtRest /\ yielded <= total) => \A c \in ctxMade : closeCnt[c] = 1

\* C10: a producer blocked on its send to a full todoTasklets when the abort
\* flag is set still terminates: it is never left with no goroutine of the
\* task able to take a step.
C10_ProducerTerminates ==
    \A h \in Tids :
        (/\ handlers[h].pc = "send"
         /\ Len(todoTasklets.buf) = BUF_TASKLET_CNT
         /\ tskctx_aborted) => ~AtRest

\* C11: once a failed tasklet has set the abort flag, every executor of the
\* task terminates, the handler's wait returns and the worker becomes free:
\* the goroutines of an aborted task (one that yields no more tasklets than it
\* declared) never come to rest with an executor alive or the worker busy.
C11_ExecutorTermination ==
    (AtRest /\ tskctx_aborted /\ yielded <= total) =>
        /\ AliveExecutors = {}
        /\ AliveHandlers = {}
        /\ wfree

(***************************************************************************)
(* More claims about the master.                                           *)
(***************************************************************************)
\* a runProj call returned in this step
RunProjReturned == receipt' # receipt

\* ids formatted from different clock readings or different idx differ
DistinctIds ==
    \A t1, t2 \in 1..MaxTime, i1, i2 \in 0..MaxRuns :
        FmtProjId(t1, i1) = FmtProjId(t2, i2) => (t1 = t2 /\ i1 = i2)

\* C12: a runProj call made while free = true is admitted and gets a projId
\* formatted from the value of idx, which no earlier projId was (the latest
\* one carries idx - 1, and ids of different idx differ); idx grows by
\* exactly one on each admission and is unchanged by any other step, a
\* rejected call included.
C12_ReadmissionAndIdentity ==
    /\ [](/\ projId = NoId <=> idx = 0
          /\ idx > 0 => \E ts \in 1..MaxTime : projId = FmtProjId(ts, idx - 1)
          /\ DistinctIds)
    /\ [][ /\ (RunProjReturned /\ free) =>
                /\ receipt'.ErrMsg.text = ""
                /\ receipt'.ProjId = projId'
                /\ projId' = FmtProjId(now, idx)
                /\ projId' # projId
                /\ idx' = idx + 1
                /\ ~free'
           /\ (RunProjReturned /\ ~free) => (idx' = idx /\ projId' = projId)
           /\ idx' # idx => (RunProjReturned /\ free /\ idx' = idx + 1)
        ]_vars

\* a project was admitted again after the first run finished, within the
\* same clock reading as the first admission
C12_Witness ==
    /\ idx = 2
    /\ ~free
    /\ receipt.ProjId = FmtProjId(1, 1)
    /\ projMeta.run = 2
    /\ AliveDrivers = {2}

\* C13: the JobMetas of the current ProjectMeta are the metas of a prefix of
\* its project's GetJobs(), in declaration order, one per job run, all
\* produced by the run the meta belongs to; a driver runs job k only when the
\* metas of the k - 1 jobs before it have been appended to its run's meta.
C13_JobOrdering ==
    /\ projMeta # NoMeta =>
         LET jobs == GetJobs(projMeta.Name)
             jmetas == projMeta.JobMetas
         IN /\ Len(jmetas) <= Len(jobs)
            /\ \A n \in 1..Len(jmetas) :
                 /\ jmetas[n].Kind = jobs[n]
                 /\ jmetas[n].job = n
                 /\ jmetas[n].run = projMeta.run
    /\ \A d \in Runs :
         (drivers[d].pc \in {"runJob", "insert"} /\ projMeta.run = d) =>
             Len(projMeta.JobMetas) = drivers[d].k - 1

\* C14: the driver of a run calls finish once: once the ProjectMeta of a run
\* has Finished = true, its ErrMsg, EndTs, Finished and JobMetas never change
\* again, so the ErrMsg of a failed run stays that of the first failing step.
C14_FirstTerminalErrorWins ==
    [][ (projMeta.Finished /\ projMeta'.run = projMeta.run) =>
            /\ projMeta'.ErrMsg = projMeta.ErrMsg
            /\ projMeta'.EndTs = projMeta.EndTs
            /\ projMeta'.Finished
            /\ projMeta'.JobMetas = projMeta.JobMetas
      ]_vars

(***************************************************************************)
(* More claims about the worker.                                           *)
(***************************************************************************)
\* C15: 0 <= done <= total in every state, for any tasklet generator, where
\* total is the GetTaskletCnt() sampled by init, and total = done = 0 from
\* kickoff until then (and for good when Init fails).
C15_WorkerCounters ==
    /\ 0 <= done
    /\ done <= total
    /\ total \in TaskletCnts \cup {0}
    /\ Past({"taskInit", "ctxInit", "initErr"}) => (total = 0 /\ done = 0)
    /\ (Past({"abortOrReduce", "finish", "setFree"}) /\ err = TaskInitErr) =>
         (total = 0 /\ done = 0)

\* a generator that yields more tasklets than it declared has filled
\* doneTasklets: an executor holds a completed tasklet it cannot send
C15_Witness ==
    /\ total = 1
    /\ done = total
    /\ yielded > total
    /\ \E e \in Eids : executors[e].pc = "append"

\* an executor is at its send to doneTasklets and the buffer is full
DoneSendBlocked ==
    \E e \in Eids :
        /\ executors[e].pc = "append"
        /\ Len(doneTasklets.buf) >= doneTasklets.cap

\* C16 (as amended): as long as GetNextTasklet has yielded no more tasklets
\* than GetTaskletCnt() declared, an executor's send to doneTasklets never
\* blocks, whether or not the task is aborting.
C16_DoneSendsNeverBlock == yielded <= total => ~DoneSendBlocked

\* C16 (as stated): the send never blocks, for any number of tasklets that
\* GetNextTasklet yields.
C16_ForAnyYield == ~DoneSendBlocked

\* an executor is at its send while the task is aborting and the handler
\* waits on wgFinish
C16_Witness ==
    /\ Past({"wait"})
    /\ tskctx_aborted
    /\ yielded = total
    /\ \E e \in Eids : executors[e].pc = "append"

\* C17: once setErr has recorded a tasklet failure no executor dequeues a
\* tasklet from todoTasklets any more (the failing executor has left, the
\* others only finish the tasklet they already hold).
C17_PoisonedCtxStopsNewWork ==
    [][ \A e \in Eids :
            (tskctx_aborted /\ executors[e].pc = "recv") =>
                executors'[e].pc # "exec"
      ]_vars

(***************************************************************************)
(* More claims about the status query and the status.                      *)
(***************************************************************************)
\* C18: queryProjStatusHandler never dereferences an absent snapshot: a call
\* made before any project was admitted completes without fault.
C18_QueryBeforeAnyRun ==
    qresp # NoResp =>
        /\ ~qresp.fault
        /\ qresp.snap = NoMeta => qresp.meta.JobMetas \in {<<>>, <<qresp.live>>}

\* C19: whenever free = false the meta snapshotProjMeta returns (when there
\* is one) is that of the admitted project's run: Finished = false, an empty
\* ErrMsg and the admitted project's Name, never the meta of an earlier run.
C19_StatusNeverStale ==
    (~free /\ snapshotProjMeta # NoMeta) =>
        /\ ~snapshotProjMeta.Finished
        /\ snapshotProjMeta.ErrMsg = NoErr
        /\ snapshotProjMeta.Name = GetName(proj)
        /\ snapshotProjMeta.run = idx

\* C20: getTaskStatus returns none exactly when free = true; a status it
\* returns names the running task and carries that task's own Finished, Total
\* and Done: Finished only once that task's handler has passed its finish
\* phase, and nothing counted before the handler has started.
C20_StatusOfCurrentTask ==
    /\ (tskctx_getTaskStatus = NoStatus) <=> wfree
    /\ ~wfree =>
         LET status == tskctx_getTaskStatus
         IN /\ status.Tid = tsk.Tid
            /\ status.Tid = admitted
            /\ status.Finished => handlers[status.Tid].pc = "setFree"
            /\ handlers[status.Tid].pc = "kickoff" =>
                 (status.Total = 0 /\ status.Done = 0)

=============================================================================
